---- MODULE Spec2Model ----
(***************************************************************************)
(* Model of the overlay composition service of listing-mapper-backend:     *)
(*   - generateOverlaySVG  (services/image-composer, src/unnamed/part_000) *)
(*   - composeMapImage     (same file)                                     *)
(*   - the compositeMap mutation of the tRPC router (src/router.ts)        *)
(*                                                                         *)
(* Strings are sequences of character codes.  Real numbers that the code   *)
(* computes with are kept exact: the scale factor is carried in            *)
(* thousandths (scale = ScaleNum / 1000), distances in tenths of a mile.   *)
(***************************************************************************)
EXTENDS Integers, Sequences, FiniteSets, TLC

(***************************************************************************)
(* Bounds of the model.                                                    *)
(***************************************************************************)
MaxAddrLen == 43
MaxNameLen == 24
MaxPOIs == 5
MaxDimK == 20
DimStep == 125
NumCalls == 2

(***************************************************************************)
(* Program constants of generateOverlaySVG and composeMapImage.            *)
(***************************************************************************)
ScaleDivisor == 1000
PaddingBase == 12
BoxPaddingBase == 10
TitleFontBase == 14
TextFontBase == 11
SmallFontBase == 10
DotSizeBase == 8
LineHeightBase == 16
BorderRadiusBase == 6
AddressBoxWidthBase == 240
AddressBoxHeightBase == 65
AmenitiesBoxWidthBase == 160
AmenitiesBoxHeightBase == 115
ClosestBoxWidthBase == 200
ClosestBoxHeightBase == 95
AddressMaxLen == 40
AddressKeep == 37
AddressBreak == 30
NameMaxLen == 22
NameKeep == 19
MaxClosest == 4
DefaultWidth == 1280
DefaultHeight == 960
Dot == 46

Max(a, b) == IF a >= b THEN a ELSE b
Min(a, b) == IF a <= b THEN a ELSE b

(***************************************************************************)
(* JavaScript string primitives.                                           *)
(***************************************************************************)
\* String.prototype.substring(start, end): both indices clamped to the length.
Substring(s, start, end) ==
    SubSeq(s, Min(start, Len(s)) + 1, Min(end, Len(s)))

\* String.prototype.substring(start): to the end of the string.
SubstringFrom(s, start) ==
    SubSeq(s, Min(start, Len(s)) + 1, Len(s))

\* The literal "..." of the two truncations.
Ellipsis == <<Dot, Dot, Dot>>

(***************************************************************************)
(* Scale and rounding (lines 36-53).                                       *)
(***************************************************************************)
\* baseScale = Math.max(width, height) / 1000, in thousandths.
BaseScaleNum(width, height) == Max(width, height)

\* scale = Math.max(baseScale, 1.0), in thousandths.
ScaleNum(width, height) == Max(BaseScaleNum(width, height), ScaleDivisor)

\* The pairs <<max(W,H), base>> (max(W,H) <= 30000) for which the IEEE-754
\* double product base * (max(W,H)/1000) is one ulp BELOW an exact k + 1/2,
\* so that Math.round yields k where exact arithmetic would yield k + 1.
FloatTieBelow ==
    { <<2300, 95>>, <<4100, 115>>, <<4100, 95>>, <<5100, 95>>,
      <<8700, 115>>, <<8700, 95>>, <<9700, 95>>, <<10700, 95>>,
      <<16900, 115>>, <<16900, 95>>, <<17900, 95>>, <<18900, 95>>,
      <<19900, 95>>, <<20900, 95>> }

\* A mutant of MathRound: truncation (Math.floor) instead of rounding.
MathRoundFloor(base, scaleNum) == (base * scaleNum) \div ScaleDivisor

\* Math.round(base * scale): nearest integer, ties upwards, of the double
\* product; scale = scaleNum / 1000.
MathRound(base, scaleNum) ==
    IF <<scaleNum, base>> \in FloatTieBelow
      THEN (base * scaleNum) \div ScaleDivisor
      ELSE (2 * base * scaleNum + ScaleDivisor) \div (2 * ScaleDivisor)

\* The local size constants of generateOverlaySVG.
Sizes(width, height) ==
    LET s == ScaleNum(width, height) IN
    [ scaleNum           |-> s,
      padding            |-> MathRound(PaddingBase, s),
      boxPadding         |-> MathRound(BoxPaddingBase, s),
      titleFontSize      |-> MathRound(TitleFontBase, s),
      textFontSize       |-> MathRound(TextFontBase, s),
      smallFontSize      |-> MathRound(SmallFontBase, s),
      dotSize            |-> MathRound(DotSizeBase, s),
      lineHeight         |-> MathRound(LineHeightBase, s),
      borderRadius       |-> MathRound(BorderRadiusBase, s),
      addressBoxWidth    |-> MathRound(AddressBoxWidthBase, s),
      addressBoxHeight   |-> MathRound(AddressBoxHeightBase, s),
      amenitiesBoxWidth  |-> MathRound(AmenitiesBoxWidthBase, s),
      amenitiesBoxHeight |-> MathRound(AmenitiesBoxHeightBase, s),
      closestBoxWidth    |-> MathRound(ClosestBoxWidthBase, s),
      closestBoxHeight   |-> MathRound(ClosestBoxHeightBase, s) ]

\* The base constant behind each size, for stating the scaling rule.
SizeBase ==
    [ padding            |-> PaddingBase,
      boxPadding         |-> BoxPaddingBase,
      titleFontSize      |-> TitleFontBase,
      textFontSize       |-> TextFontBase,
      smallFontSize      |-> SmallFontBase,
      dotSize            |-> DotSizeBase,
      lineHeight         |-> LineHeightBase,
      borderRadius       |-> BorderRadiusBase,
      addressBoxWidth    |-> AddressBoxWidthBase,
      addressBoxHeight   |-> AddressBoxHeightBase,
      amenitiesBoxWidth  |-> AmenitiesBoxWidthBase,
      amenitiesBoxHeight |-> AmenitiesBoxHeightBase,
      closestBoxWidth    |-> ClosestBoxWidthBase,
      closestBoxHeight   |-> ClosestBoxHeightBase ]

(***************************************************************************)
(* Address text (lines 55-57).                                             *)
(***************************************************************************)
\* A mutant of DisplayAddress: the ellipsis is appended to 40 kept characters.
DisplayAddressKeep40(address) ==
    IF Len(address) > AddressMaxLen
      THEN Substring(address, 0, AddressMaxLen) \o Ellipsis
      ELSE address

DisplayAddress(address) ==
    IF Len(address) > AddressMaxLen
      THEN Substring(address, 0, AddressKeep) \o Ellipsis
      ELSE address

AddressLine1(address) == Substring(DisplayAddress(address), 0, AddressBreak)

AddressLine2(address) ==
    IF Len(DisplayAddress(address)) > AddressBreak
      THEN SubstringFrom(DisplayAddress(address), AddressBreak)
      ELSE <<>>

(***************************************************************************)
(* Colours (lines 60-65, 69, 73, 105-129).                                 *)
(***************************************************************************)
Gray == "#666666"
brandColor == "#1E40AF"

\* Own properties of the categoryColors object literal.
categoryColors ==
    [ restaurant |-> "#F97316",
      grocery    |-> "#92400E",
      shopping   |-> "#A855F7",
      park       |-> "#22C55E" ]

\* Properties every object literal inherits from Object.prototype, with the
\* string each inherited value becomes when interpolated into the markup.
\* All of them are truthy.
ObjectPrototype ==
    [ constructor    |-> "function Object() { [native code] }",
      toString       |-> "function toString() { [native code] }",
      valueOf        |-> "function valueOf() { [native code] }",
      hasOwnProperty |-> "function hasOwnProperty() { [native code] }",
      __proto__      |-> "[object Object]" ]

\* The value of a missing property.
Undefined == "undefined"

\* categoryColors[key]: an own property, else an inherited one, else undefined.
PropertyLookup(key) ==
    IF key \in DOMAIN categoryColors THEN categoryColors[key]
    ELSE IF key \in DOMAIN ObjectPrototype THEN ObjectPrototype[key]
    ELSE Undefined

\* categoryColors[poi.category] || "#666666"
BulletColor(category) ==
    IF PropertyLookup(category) = Undefined THEN Gray
    ELSE PropertyLookup(category)

\* The five entries of the amenities legend, in emitted order.
Legend(stats) ==
    << [color |-> brandColor, label |-> "Your Listing", count |-> <<>>],
       [color |-> "#F97316", label |-> "Restaurants", count |-> <<stats.restaurants>>],
       [color |-> "#92400E", label |-> "Grocery", count |-> <<stats.grocery>>],
       [color |-> "#A855F7", label |-> "Shopping", count |-> <<stats.shopping>>],
       [color |-> "#22C55E", label |-> "Parks", count |-> <<stats.parks>>] >>

(***************************************************************************)
(* Closest-location entries (lines 67-71).                                 *)
(***************************************************************************)
DisplayName(name) ==
    IF Len(name) > NameMaxLen
      THEN Substring(name, 0, NameKeep) \o Ellipsis
      ELSE name

\* Number.prototype.toFixed(1) of a distance given in tenths of a mile.
ToFixed1(distance) == [whole |-> distance \div 10, tenth |-> distance % 10]

\* A mutant of ClosestEntries: the list is not cut to four entries.
ClosestEntriesUncut(closestPOIs) ==
    [ i \in 1..Len(closestPOIs) |->
        [ color    |-> BulletColor(closestPOIs[i].category),
          name     |-> DisplayName(closestPOIs[i].name),
          distance |-> ToFixed1(closestPOIs[i].distance) ] ]

\* closestPOIs.slice(0, 4).map(...)
ClosestEntries(closestPOIs) ==
    [ i \in 1..Min(Len(closestPOIs), MaxClosest) |->
        [ color    |-> BulletColor(closestPOIs[i].category),
          name     |-> DisplayName(closestPOIs[i].name),
          distance |-> ToFixed1(closestPOIs[i].distance) ] ]

(***************************************************************************)
(* The emitted markup (lines 75-151), as a structured scene.               *)
(***************************************************************************)
Rect(x, y, w, h, rx) == [x |-> x, y |-> y, width |-> w, height |-> h, rx |-> rx]

\* A mutant of AmenitiesRect: the box width is not subtracted from the x offset.
AmenitiesRectNoWidth(z, width) ==
    Rect(width - z.padding, z.padding, z.amenitiesBoxWidth,
         z.amenitiesBoxHeight, z.borderRadius)

AddressRect(z) ==
    Rect(z.padding, z.padding, z.addressBoxWidth, z.addressBoxHeight,
         z.borderRadius)

AmenitiesRect(z, width) ==
    Rect(width - z.amenitiesBoxWidth - z.padding, z.padding,
         z.amenitiesBoxWidth, z.amenitiesBoxHeight, z.borderRadius)

ClosestRect(z, height) ==
    Rect(z.padding, height - z.closestBoxHeight - z.padding,
         z.closestBoxWidth, z.closestBoxHeight, z.borderRadius)

\* "${radiusMiles} mile${radiusMiles !== 1 ? "s" : ""} radius"
RadiusLabel(radiusMiles) ==
    [value |-> radiusMiles, unit |-> IF radiusMiles # 1 THEN "miles" ELSE "mile"]

\* The return value of generateOverlaySVG, from its locals: z the size
\* constants, line1 and line2 the address lines, closestEntries the entries.
Markup(z, line1, line2, closestEntries, radiusMiles, stats, width, height) ==
    [ width  |-> width,
      height |-> height,
      addressBox |->
        [ rect  |-> AddressRect(z),
          lines |-> IF line2 # <<>> THEN <<line1, line2>> ELSE <<line1>>,
          titleFontSize |-> z.titleFontSize,
          radius |-> RadiusLabel(radiusMiles),
          smallFontSize |-> z.smallFontSize ],
      amenitiesBox |->
        [ rect   |-> AmenitiesRect(z, width),
          legend |-> Legend(stats),
          dotSize |-> z.dotSize,
          textFontSize |-> z.textFontSize ],
      closestBox |->
        IF Len(closestEntries) > 0
          THEN << [ rect    |-> ClosestRect(z, height),
                    entries |-> closestEntries,
                    lineHeight |-> z.lineHeight ] >>
          ELSE <<>> ]

generateOverlaySVG(address, radiusMiles, stats, closestPOIs, width, height) ==
    Markup(Sizes(width, height), AddressLine1(address), AddressLine2(address),
           ClosestEntries(closestPOIs), radiusMiles, stats, width, height)

(***************************************************************************)
(* State.                                                                  *)
(*   One invocation of generateOverlaySVG on its own (args, sizes, svg),   *)
(*   and NumCalls concurrent compositeMap requests, each with the locals   *)
(*   of its compositeMap / composeMapImage activation.                     *)
(***************************************************************************)
VARIABLES
    args,        \* <<>> or <<the arguments of the generateOverlaySVG call>>
    sizes,       \* <<>> or <<the size constants computed by that call>>
    svg,         \* <<>> or <<the scene it returned>>
    pc,          \* per call: the await the call is suspended at
    input,       \* per call: <<>> or <<the mutation input>>
    response,    \* per call: <<>> or <<how fetch(input.mapUrl) settled>>
    mapBuffer,   \* per call: <<>> or <<the fetched bytes>>
    metadata,    \* per call: <<>> or <<what sharp(mapBuffer).metadata() gave>>
    dims,        \* per call: <<>> or <<width, height>> (the locals)
    overlaySvg,  \* per call: <<>> or <<the overlay scene>>
    result,      \* per call: what the mutation returned or threw
    logged,      \* per call: the errors given to console.error
    steps,       \* per call: the phases entered, in order
    fetchCount   \* per call: number of fetch() calls issued

layoutVars == <<args, sizes, svg>>
callVars == <<pc, input, response, mapBuffer, metadata, dims, overlaySvg,
              result, logged, steps, fetchCount>>
vars == <<args, sizes, svg, pc, input, response, mapBuffer, metadata, dims,
          overlaySvg, result, logged, steps, fetchCount>>

Calls == 1..NumCalls

(***************************************************************************)
(* Inputs.                                                                 *)
(***************************************************************************)
\* A string of n pairwise different characters, and one of n dots.
Text(n) == [i \in 1..n |-> 100 + i]
Dots(n) == [i \in 1..n |-> Dot]

AddressInputs ==
    {Text(n) : n \in 0..MaxAddrLen} \cup {Dots(n) : n \in {29, 30, 31, 40, 41}}

ExtraDims == {100, 126, 127, 251, 252, 640, 960, 1001, 1280, 2300}

DimInputs == {k * DimStep : k \in 1..MaxDimK} \cup ExtraDims

CategoryInputs ==
    { "restaurant", "grocery", "shopping", "park", "restaurants", "parks",
      "cafe", "", "constructor", "toString" }

POI(name, category, distance) ==
    [name |-> name, category |-> category, distance |-> distance]

SinglePOIs ==
    { <<POI(Text(n), c, 5)>> : n \in 0..MaxNameLen, c \in CategoryInputs }

POIPool ==
    { POI(Text(10), "restaurant", 3), POI(Text(22), "park", 12),
      POI(Text(23), "cafe", 7),       POI(Text(30), "grocery", 25) }

RECURSIVE SeqsUpTo(_, _)
SeqsUpTo(S, n) ==
    IF n = 0 THEN {<<>>}
    ELSE LET shorter == SeqsUpTo(S, n - 1) IN
         shorter \cup {Append(q, x) : q \in {r \in shorter : Len(r) = n - 1}, x \in S}

POILists == SeqsUpTo(POIPool, MaxPOIs)

StatsInputs ==
    { [restaurants |-> 0, grocery |-> 0, shopping |-> 0, parks |-> 0],
      [restaurants |-> 3, grocery |-> 1, shopping |-> 4, parks |-> 2] }

Args(address, radius, stats, closestPOIs, width, height) ==
    [ address |-> address, radius |-> radius, stats |-> stats,
      closestPOIs |-> closestPOIs, width |-> width, height |-> height ]

SomeStats == [restaurants |-> 3, grocery |-> 1, shopping |-> 4, parks |-> 2]
OnePOI == <<POI(Text(10), "restaurant", 3)>>

\* The argument tuples generateOverlaySVG is exercised on: every address on
\* a few canvases, every canvas with a few texts, every POI list on one canvas.
LayoutInputs ==
    { Args(a, r, st, ps, d[1], d[2]) :
        a \in AddressInputs, r \in {0, 1, 2}, st \in StatsInputs,
        ps \in {<<>>, OnePOI}, d \in {<<500, 500>>, <<2000, 1500>>} }
    \cup
    { Args(a, 1, SomeStats, ps, w, h) :
        a \in {Text(10), Text(41)}, ps \in {<<>>, OnePOI},
        w \in DimInputs, h \in DimInputs }
    \cup
    { Args(Text(10), 2, SomeStats, ps, 1280, 960) :
        ps \in SinglePOIs \cup POILists }

(***************************************************************************)
(* The layout engine on its own.                                           *)
(***************************************************************************)
IdleCalls ==
    /\ pc = [c \in Calls |-> "idle"]
    /\ input = [c \in Calls |-> <<>>]
    /\ response = [c \in Calls |-> <<>>]
    /\ mapBuffer = [c \in Calls |-> <<>>]
    /\ metadata = [c \in Calls |-> <<>>]
    /\ dims = [c \in Calls |-> <<>>]
    /\ overlaySvg = [c \in Calls |-> <<>>]
    /\ result = [c \in Calls |-> [kind |-> "pending"]]
    /\ logged = [c \in Calls |-> <<>>]
    /\ steps = [c \in Calls |-> <<>>]
    /\ fetchCount = [c \in Calls |-> 0]

LayoutInit ==
    /\ args \in {<<a>> : a \in LayoutInputs}
    /\ sizes = <<>>
    /\ svg = <<>>
    /\ IdleCalls

\* One call of generateOverlaySVG, entry to return.
Generate ==
    /\ svg = <<>>
    /\ sizes' = <<Sizes(args[1].width, args[1].height)>>
    /\ svg' = <<generateOverlaySVG(args[1].address, args[1].radius,
                                   args[1].stats, args[1].closestPOIs,
                                   args[1].width, args[1].height)>>
    /\ UNCHANGED <<args, callVars>>

LayoutNext == Generate

LayoutSpec == LayoutInit /\ [][LayoutNext]_vars

(***************************************************************************)
(* The environment of a compositeMap request: the HTTP exchange and sharp. *)
(***************************************************************************)
StatusInputs == {200, 404, 500}

\* Response.ok of the fetch API: a status in the range 200-299.
ResponseOk(status) == status >= 200 /\ status <= 299

\* `${response.status}`
StatusText(status) ==
    CASE status = 200 -> "200"
      [] status = 404 -> "404"
      [] status = 500 -> "500"

\* Fetched bytes.  What sharp does with them is a function of the bytes:
\* whether the header decodes at all, whether it yields pixel dimensions,
\* the true raster size, and whether the pixel data or the PNG encoding
\* fails later in the pipeline.
Garbage == [decodable |-> FALSE]

ImageBytes(w, h, hasDims, fault) ==
    [ decodable |-> TRUE, width |-> w, height |-> h, hasDims |-> hasDims,
      fault |-> fault ]

BodyInputs ==
    {Garbage}
      \cup { ImageBytes(d[1], d[2], hd, "none") :
               d \in {<<1280, 960>>, <<640, 480>>, <<2000, 1500>>},
               hd \in BOOLEAN }
      \cup { ImageBytes(1280, 960, TRUE, "pixels"),
             ImageBytes(1280, 960, TRUE, "encode") }

CallInputs ==
    { [ mapUrl |-> "https://api.mapbox.com/a", address |-> Text(10),
        radius |-> 1, stats |-> SomeStats, closestPOIs |-> OnePOI ],
      [ mapUrl |-> "https://api.mapbox.com/b", address |-> Text(41),
        radius |-> 2, stats |-> SomeStats, closestPOIs |-> <<>> ] }

\* Errors thrown inside composeMapImage.
FetchFailed == [name |-> "TypeError", message |-> <<"fetch failed">>]
BodyFailed == [name |-> "TypeError", message |-> <<"terminated">>]
StatusError(status) ==
    [ name |-> "Error",
      message |-> <<"Failed to fetch map image: ", StatusText(status)>> ]
UnsupportedFormat ==
    [ name |-> "Error",
      message |-> <<"Input buffer contains unsupported image format">> ]
CompositeTooLarge ==
    [ name |-> "Error",
      message |-> <<"Image to composite must have same dimensions or smaller">> ]
PixelDataError == [name |-> "Error", message |-> <<"Premature end of input file">>]
EncodeError == [name |-> "Error", message |-> <<"Unable to write PNG output">>]

(***************************************************************************)
(* composeMapImage (lines 157-194).                                        *)
(***************************************************************************)
\* A mutant of NotOkThrows: the status check is missing.
NotOkNeverThrows(resp) == FALSE

\* if (!response.ok) throw ...
NotOkThrows(resp) == ~resp.ok

\* sharp(mapBuffer).metadata() of decodable bytes: width and height are
\* present when the header yields them.
Metadata(bytes) ==
    IF bytes.hasDims
      THEN [width |-> <<bytes.width>>, height |-> <<bytes.height>>]
      ELSE [width |-> <<>>, height |-> <<>>]

\* metadata.width || 1280
MeasuredWidth(md) == IF md.width = <<>> THEN DefaultWidth ELSE md.width[1]

\* A mutant of MeasuredHeight: the fallback of the width is used for the height.
MeasuredHeightWidthDefault(md) ==
    IF md.height = <<>> THEN DefaultWidth ELSE md.height[1]

\* metadata.height || 960
MeasuredHeight(md) == IF md.height = <<>> THEN DefaultHeight ELSE md.height[1]

\* A mutant of Composite: the output canvas is taken from the overlay.
CompositeOnOverlayCanvas(bytes, overlay) ==
    [ format |-> "png", width |-> overlay.width, height |-> overlay.height,
      base |-> bytes,
      layers |-> <<[input |-> overlay, top |-> 0, left |-> 0]>> ]

\* sharp(mapBuffer).composite([{input: overlaySvg, top: 0, left: 0}]).png():
\* the output keeps the size of the processed (base) image.
Composite(bytes, overlay) ==
    [ format |-> "png", width |-> bytes.width, height |-> bytes.height,
      base |-> bytes,
      layers |-> <<[input |-> overlay, top |-> 0, left |-> 0]>> ]

\* How .toBuffer() settles: sharp rejects an overlay larger than the base
\* image, undecodable pixel data, and a failing encoder.
ToBufferOutcome(bytes, overlay) ==
    IF overlay.width > bytes.width \/ overlay.height > bytes.height
      THEN [ok |-> FALSE, error |-> CompositeTooLarge, phases |-> <<>>]
    ELSE IF bytes.fault = "pixels"
      THEN [ok |-> FALSE, error |-> PixelDataError, phases |-> <<>>]
    ELSE IF bytes.fault = "encode"
      THEN [ok |-> FALSE, error |-> EncodeError, phases |-> <<"encode">>]
    ELSE [ok |-> TRUE, image |-> Composite(bytes, overlay), phases |-> <<"encode">>]

\* composited.toString("base64")
ToBase64(image) == [encoding |-> "base64", data |-> image]

(***************************************************************************)
(* The compositeMap mutation (router.ts lines 183-191).                    *)
(***************************************************************************)
\* A mutant of RouterCatch: the caught error is rethrown as it is.
RouterRethrow(error) == [kind |-> "error", message |-> error.message]

\* catch (error) { console.error(...); throw new Error("Failed to compose map image") }
RouterCatch(error) ==
    [kind |-> "error", message |-> <<"Failed to compose map image">>]

\* return { imageBase64: composedImageBase64 }
RouterReturn(composedImageBase64) ==
    [kind |-> "ok", value |-> [imageBase64 |-> composedImageBase64]]

\* An error thrown in composeMapImage reaches the catch block of the mutation.
Throw(c, error) ==
    /\ logged' = [logged EXCEPT ![c] = Append(@, error)]
    /\ result' = [result EXCEPT ![c] = RouterCatch(error)]
    /\ pc' = [pc EXCEPT ![c] = "done"]

Init ==
    /\ args = <<>>
    /\ sizes = <<>>
    /\ svg = <<>>
    /\ IdleCalls

\* The mutation is invoked: composeMapImage starts and issues the fetch.
Call(c) ==
    /\ pc[c] = "idle"
    /\ \E inp \in CallInputs : input' = [input EXCEPT ![c] = <<inp>>]
    /\ fetchCount' = [fetchCount EXCEPT ![c] = @ + 1]
    /\ steps' = [steps EXCEPT ![c] = Append(@, "fetch")]
    /\ pc' = [pc EXCEPT ![c] = "awaitFetch"]
    /\ UNCHANGED <<response, mapBuffer, metadata, dims, overlaySvg, result,
                   logged, layoutVars>>

\* A mutant of FetchReject: a rejected fetch is issued again (twice at most).
FetchRejectRetry(c) ==
    /\ pc[c] = "awaitFetch"
    /\ fetchCount[c] < 3
    /\ fetchCount' = [fetchCount EXCEPT ![c] = @ + 1]
    /\ UNCHANGED <<pc, input, response, mapBuffer, metadata, dims, overlaySvg,
                   result, logged, steps, layoutVars>>

\* fetch() rejects (transport failure).
FetchReject(c) ==
    /\ pc[c] = "awaitFetch"
    /\ response' = [response EXCEPT ![c] = <<[kind |-> "rejected"]>>]
    /\ Throw(c, FetchFailed)
    /\ UNCHANGED <<input, mapBuffer, metadata, dims, overlaySvg, steps,
                   fetchCount, layoutVars>>

\* fetch() resolves with a response the status check throws on.
FetchResolveNotOk(c) ==
    /\ pc[c] = "awaitFetch"
    /\ \E status \in StatusInputs :
         LET resp == [kind |-> "response", ok |-> ResponseOk(status),
                      status |-> status]
         IN
         /\ NotOkThrows(resp)
         /\ response' = [response EXCEPT ![c] = <<resp>>]
         /\ Throw(c, StatusError(status))
    /\ UNCHANGED <<input, mapBuffer, metadata, dims, overlaySvg, steps,
                   fetchCount, layoutVars>>

\* fetch() resolves with a response that passes the check; the body is awaited.
FetchResolveOk(c) ==
    /\ pc[c] = "awaitFetch"
    /\ \E status \in StatusInputs :
         LET resp == [kind |-> "response", ok |-> ResponseOk(status),
                      status |-> status]
         IN
         /\ ~NotOkThrows(resp)
         /\ response' = [response EXCEPT ![c] = <<resp>>]
    /\ pc' = [pc EXCEPT ![c] = "awaitBody"]
    /\ UNCHANGED <<input, mapBuffer, metadata, dims, overlaySvg, result,
                   logged, steps, fetchCount, layoutVars>>

\* response.arrayBuffer() rejects (the transfer breaks off).
BodyReject(c) ==
    /\ pc[c] = "awaitBody"
    /\ Throw(c, BodyFailed)
    /\ UNCHANGED <<input, response, mapBuffer, metadata, dims, overlaySvg,
                   steps, fetchCount, layoutVars>>

\* response.arrayBuffer() resolves; sharp(mapBuffer).metadata() is started.
BodyResolve(c) ==
    /\ pc[c] = "awaitBody"
    /\ \E bytes \in BodyInputs : mapBuffer' = [mapBuffer EXCEPT ![c] = <<bytes>>]
    /\ steps' = [steps EXCEPT ![c] = Append(@, "decode")]
    /\ pc' = [pc EXCEPT ![c] = "awaitMetadata"]
    /\ UNCHANGED <<input, response, metadata, dims, overlaySvg, result,
                   logged, fetchCount, layoutVars>>

\* metadata() rejects: the bytes are no image sharp can read.
MetadataReject(c) ==
    /\ pc[c] = "awaitMetadata"
    /\ ~mapBuffer[c][1].decodable
    /\ Throw(c, UnsupportedFormat)
    /\ UNCHANGED <<input, response, mapBuffer, metadata, dims, overlaySvg,
                   steps, fetchCount, layoutVars>>

\* const width = metadata.width || 1280; const height = metadata.height || 960
MeasuredDims(md) == <<MeasuredWidth(md), MeasuredHeight(md)>>

\* The generateOverlaySVG call of composeMapImage (lines 171-178).
OverlayFor(inp, d) ==
    generateOverlaySVG(inp.address, inp.radius, inp.stats, inp.closestPOIs,
                       d[1], d[2])

\* metadata() resolves: width and height are taken, the overlay is generated
\* and the composite pipeline is started.
MetadataResolve(c) ==
    /\ pc[c] = "awaitMetadata"
    /\ mapBuffer[c][1].decodable
    /\ metadata' = [metadata EXCEPT ![c] = <<Metadata(mapBuffer[c][1])>>]
    /\ dims' = [dims EXCEPT ![c] = MeasuredDims(Metadata(mapBuffer[c][1]))]
    /\ overlaySvg' = [overlaySvg EXCEPT ![c] =
          <<OverlayFor(input[c][1], MeasuredDims(Metadata(mapBuffer[c][1])))>>]
    /\ steps' = [steps EXCEPT ![c] = @ \o <<"layout", "merge">>]
    /\ pc' = [pc EXCEPT ![c] = "awaitToBuffer"]
    /\ UNCHANGED <<input, response, mapBuffer, result, logged, fetchCount,
                   layoutVars>>

\* toBuffer() rejects.
ToBufferReject(c) ==
    /\ pc[c] = "awaitToBuffer"
    /\ LET out == ToBufferOutcome(mapBuffer[c][1], overlaySvg[c][1]) IN
       /\ ~out.ok
       /\ steps' = [steps EXCEPT ![c] = @ \o out.phases]
       /\ Throw(c, out.error)
    /\ UNCHANGED <<input, response, mapBuffer, metadata, dims, overlaySvg,
                   fetchCount, layoutVars>>

\* toBuffer() resolves: the image is returned base64-encoded.
ToBufferResolve(c) ==
    /\ pc[c] = "awaitToBuffer"
    /\ LET out == ToBufferOutcome(mapBuffer[c][1], overlaySvg[c][1]) IN
       /\ out.ok
       /\ steps' = [steps EXCEPT ![c] = @ \o out.phases]
       /\ result' = [result EXCEPT ![c] = RouterReturn(ToBase64(out.image))]
    /\ pc' = [pc EXCEPT ![c] = "done"]
    /\ UNCHANGED <<input, response, mapBuffer, metadata, dims, overlaySvg,
                   logged, fetchCount, layoutVars>>

\* Any step of call c.
Step(c) ==
    \/ Call(c)
    \/ FetchReject(c)
    \/ FetchResolveNotOk(c)
    \/ FetchResolveOk(c)
    \/ BodyReject(c)
    \/ BodyResolve(c)
    \/ MetadataReject(c)
    \/ MetadataResolve(c)
    \/ ToBufferReject(c)
    \/ ToBufferResolve(c)

Next == \E c \in Calls : Step(c)

Spec == Init /\ [][Next]_vars

(***************************************************************************)
(* Properties of the compositing calls (checked under Spec).               *)
(***************************************************************************)
Order == <<"fetch", "decode", "layout", "merge", "encode">>

IsPrefix(p, q) == Len(p) <= Len(q) /\ p = SubSeq(q, 1, Len(p))

Ended(c) == pc[c] = "done"
Succeeded(c) == result[c].kind = "ok"
Failed(c) == result[c].kind = "error"

GenericError == [kind |-> "error", message |-> <<"Failed to compose map image">>]

\* Retrieval of the base image did not succeed: the fetch was rejected, the
\* response has a non-success status, or the body transfer broke off.
RetrievalFailed(c) ==
    /\ response[c] # <<>>
    /\ \/ response[c][1].kind = "rejected"
       \/ response[c][1].kind = "response" /\ ~ResponseOk(response[c][1].status)
       \/ Ended(c) /\ mapBuffer[c] = <<>>

\* The call failed in a phase after retrieval.
CompositionFailed(c) == Failed(c) /\ mapBuffer[c] # <<>>

\* The environment let every phase of the call succeed.
AllPhasesSucceed(c) ==
    /\ response[c] # <<>>
    /\ response[c][1].kind = "response"
    /\ ResponseOk(response[c][1].status)
    /\ mapBuffer[c] # <<>>
    /\ mapBuffer[c][1].decodable
    /\ mapBuffer[c][1].fault = "none"
    /\ overlaySvg[c] # <<>>
    /\ overlaySvg[c][1].width <= mapBuffer[c][1].width
    /\ overlaySvg[c][1].height <= mapBuffer[c][1].height

IsFetchError(e) ==
    e.message[1] \in {"fetch failed", "terminated", "Failed to fetch map image: "}

C2_SingleErrorNoPartialOutput ==
    \A c \in Calls :
      /\ ~Ended(c) => result[c] = [kind |-> "pending"]
      /\ Ended(c) => (Succeeded(c) \/ Failed(c))
      /\ Succeeded(c) =>
           /\ DOMAIN result[c].value = {"imageBase64"}
           /\ steps[c] = Order
           /\ logged[c] = <<>>
           /\ AllPhasesSucceed(c)
      /\ Failed(c) =>
           /\ result[c] = GenericError
           /\ Len(logged[c]) = 1
      /\ (Ended(c) /\ ~AllPhasesSucceed(c)) => Failed(c)

\* Two calls that failed in different phases (retrieval, encoding) ended
\* with the same error.
C2_Witness ==
    \E c1, c2 \in Calls :
      /\ Failed(c1)
      /\ Failed(c2)
      /\ steps[c1] = <<"fetch">>
      /\ steps[c2] = Order
      /\ logged[c1] # logged[c2]
      /\ result[c1] = result[c2]

\* C3 as claimed: the caller of a call whose retrieval failed gets an error
\* it can tell apart from the error of a composition-phase failure.
C3_CallerTellsFetchApart ==
    \A c1, c2 \in Calls :
      (Ended(c1) /\ RetrievalFailed(c1) /\ CompositionFailed(c2)) =>
        /\ Failed(c1)
        /\ result[c1] # result[c2]

\* C3 as amended: when retrieval does not succeed the call ends at once,
\* without image bytes and without any later phase; composeMapImage throws a
\* fetch-phase error that no later phase throws, the mutation logs it and
\* gives its caller the same generic error as for a composition failure.
C3_FetchErrorLoggedNotSurfaced ==
    \A c \in Calls :
      RetrievalFailed(c) =>
        /\ Ended(c)
        /\ Failed(c)
        /\ steps[c] = <<"fetch">>
        /\ mapBuffer[c] = <<>> /\ overlaySvg[c] = <<>>
        /\ Len(logged[c]) = 1
        /\ IsFetchError(logged[c][1])
        /\ result[c] = GenericError
        /\ \A c2 \in Calls :
             CompositionFailed(c2) =>
               /\ ~IsFetchError(logged[c2][1])
               /\ logged[c2][1] # logged[c][1]
               /\ result[c2] = result[c]

C3_Witness ==
    \E c1, c2 \in Calls :
      /\ response[c1] # <<>>
      /\ response[c1][1].kind = "response"
      /\ response[c1][1].status = 404
      /\ Failed(c1)
      /\ logged[c1] = <<StatusError(404)>>
      /\ CompositionFailed(c2)
      /\ logged[c2] = <<UnsupportedFormat>>

CanStep(c) ==
    \/ pc[c] = "awaitMetadata" /\ mapBuffer[c][1].decodable
    \/ ENABLED Step(c)

\* C9: each call is one linear run through fetch, decode, layout, merge,
\* encode; it fetches once at most; nothing of it runs after a failure or
\* after its end; while it has not ended it can always take a step, and it
\* ends as a success or a failure, never both; two calls with the same
\* input and the same fetch responses end the same way whatever the
\* interleaving.
C9_LinearIndependentCalls ==
    /\ \A c \in Calls :
         /\ IsPrefix(steps[c], Order)
         /\ fetchCount[c] <= 1
         /\ Ended(c) <=> (Succeeded(c) \/ Failed(c))
         /\ ~(Succeeded(c) /\ Failed(c))
         /\ Ended(c) => ~ENABLED Step(c)
         /\ ~Ended(c) => CanStep(c)
         /\ (Failed(c) /\ RetrievalFailed(c)) =>
              /\ steps[c] = <<"fetch">>
              /\ mapBuffer[c] = <<>> /\ metadata[c] = <<>> /\ overlaySvg[c] = <<>>
         /\ (Failed(c) /\ mapBuffer[c] # <<>> /\ ~mapBuffer[c][1].decodable) =>
              /\ steps[c] = <<"fetch", "decode">>
              /\ metadata[c] = <<>> /\ overlaySvg[c] = <<>>
         /\ Succeeded(c) => steps[c] = Order
    /\ \A c1, c2 \in Calls :
         (/\ Ended(c1) /\ Ended(c2)
          /\ input[c1] = input[c2]
          /\ response[c1] = response[c2]
          /\ mapBuffer[c1] = mapBuffer[c2]) =>
           /\ result[c1] = result[c2]
           /\ steps[c1] = steps[c2]
           /\ logged[c1] = logged[c2]

C9_Witness ==
    \E c1, c2 \in Calls :
      /\ Succeeded(c1)
      /\ steps[c1] = Order
      /\ Failed(c2)
      /\ steps[c2] = <<"fetch">>
      /\ fetchCount[c1] = 1 /\ fetchCount[c2] = 1

(***************************************************************************)
(* Properties of the layout engine (checked under LayoutSpec).             *)
(***************************************************************************)
Abs(x) == IF x < 0 THEN -x ELSE x

Returned == svg # <<>>

\* The rectangles the returned scene emits.
EmittedRects ==
    {svg[1].addressBox.rect, svg[1].amenitiesBox.rect}
      \cup {svg[1].closestBox[i].rect : i \in 1..Len(svg[1].closestBox)}

InsideCanvas(r, W, H) ==
    /\ r.x >= 0
    /\ r.y >= 0
    /\ r.x + r.width <= W
    /\ r.y + r.height <= H

\* C4: scale = max(1.0, max(W,H)/1000) (500x500 gives 1.0, 2000x1500 gives
\* 2.0), and every box size, padding, font size and line height is an integer
\* nearest to its base constant times the scale; the emitted attributes carry
\* exactly these values.
C4_ScalingRule ==
    Returned =>
      LET W == args[1].width
          H == args[1].height
          z == sizes[1]
          M == IF W >= H THEN W ELSE H
      IN
      /\ z.scaleNum = (IF M > 1000 THEN M ELSE 1000)
      /\ (W = 500 /\ H = 500 => z.scaleNum = 1000)
      /\ (W = 2000 /\ H = 1500 => z.scaleNum = 2000)
      /\ \A f \in DOMAIN SizeBase :
           /\ z[f] \in Int
           /\ 2 * Abs(1000 * z[f] - SizeBase[f] * z.scaleNum) <= 1000
      /\ svg[1].addressBox.rect.width = z.addressBoxWidth
      /\ svg[1].addressBox.rect.height = z.addressBoxHeight
      /\ svg[1].addressBox.rect.x = z.padding
      /\ svg[1].addressBox.titleFontSize = z.titleFontSize
      /\ svg[1].addressBox.smallFontSize = z.smallFontSize
      /\ svg[1].amenitiesBox.rect.width = z.amenitiesBoxWidth
      /\ svg[1].amenitiesBox.rect.height = z.amenitiesBoxHeight
      /\ svg[1].amenitiesBox.textFontSize = z.textFontSize
      /\ \A i \in 1..Len(svg[1].closestBox) :
           /\ svg[1].closestBox[i].rect.width = z.closestBoxWidth
           /\ svg[1].closestBox[i].rect.height = z.closestBoxHeight
           /\ svg[1].closestBox[i].lineHeight = z.lineHeight

\* A 1125-wide canvas has scale 1.125: 12 * 1.125 = 13.5 rounds to 14, and
\* 10 * 1.125 = 11.25 rounds to 11.
C4_Witness ==
    /\ Returned
    /\ args[1].width = 1125
    /\ args[1].height = 500
    /\ sizes[1].padding = 14
    /\ sizes[1].boxPadding = 11
    /\ svg[1].closestBox # <<>>

\* C5: the address box shows the address unmodified up to 40 characters and
\* its first 37 characters plus "..." beyond; the shown text is split into a
\* first line of its first 30 characters and a second line with the rest,
\* emitted only when the shown text is longer than 30 characters.
C5_AddressLines ==
    Returned =>
      LET a == args[1].address
          shown == IF Len(a) <= 40 THEN a
                   ELSE [i \in 1..40 |-> IF i <= 37 THEN a[i] ELSE 46]
          lines == svg[1].addressBox.lines
      IN
      /\ Len(lines) = (IF Len(shown) > 30 THEN 2 ELSE 1)
      /\ lines[1] = [i \in 1..(IF Len(shown) > 30 THEN 30 ELSE Len(shown)) |-> shown[i]]
      /\ Len(lines) = 2 =>
           /\ lines[2] = [i \in 1..(Len(shown) - 30) |-> shown[i + 30]]
           /\ lines[1] \o lines[2] = shown
      /\ Len(lines) = 1 => lines[1] = shown

C5_Witness ==
    /\ Returned
    /\ Len(args[1].address) = 41
    /\ Len(svg[1].addressBox.lines) = 2
    /\ Len(svg[1].addressBox.lines[2]) = 10
    /\ svg[1].addressBox.lines[2][7] = args[1].address[37]
    /\ svg[1].addressBox.lines[2][8] = 46

\* C6: no closest-locations box for an empty list; otherwise one box listing
\* exactly the first min(n, 4) entries in the caller's order, each name
\* unmodified up to 22 characters and cut to 19 characters plus "..." beyond.
C6_ClosestBox ==
    Returned =>
      LET ps == args[1].closestPOIs
          n == Len(ps)
          box == svg[1].closestBox
      IN
      /\ n = 0 => box = <<>>
      /\ n >= 1 =>
           /\ Len(box) = 1
           /\ Len(box[1].entries) = (IF n < 4 THEN n ELSE 4)
           /\ \A i \in 1..Len(box[1].entries) :
                LET e == box[1].entries[i]
                    nm == ps[i].name
                IN
                /\ e.name = (IF Len(nm) <= 22 THEN nm
                             ELSE [j \in 1..22 |-> IF j <= 19 THEN nm[j] ELSE 46])
                /\ 10 * e.distance.whole + e.distance.tenth = ps[i].distance

C6_Witness ==
    /\ Returned
    /\ Len(args[1].closestPOIs) = 5
    /\ Len(svg[1].closestBox) = 1
    /\ Len(svg[1].closestBox[1].entries) = 4
    /\ Len(args[1].closestPOIs[2].name) = 30
    /\ Len(svg[1].closestBox[1].entries[2].name) = 22
    /\ args[1].closestPOIs[1] # args[1].closestPOIs[2]

\* C7: the bullet colour of an entry is the legend colour of the category
\* its tag names, and the neutral gray for every unrecognized tag.
C7_BulletColours ==
    Returned =>
      \A b \in 1..Len(svg[1].closestBox) :
        \A i \in 1..Len(svg[1].closestBox[b].entries) :
          LET tag == args[1].closestPOIs[i].category
              color == svg[1].closestBox[b].entries[i].color
              legend == svg[1].amenitiesBox.legend
          IN
          CASE tag = "restaurant" -> color = legend[2].color
            [] tag = "grocery"    -> color = legend[3].color
            [] tag = "shopping"   -> color = legend[4].color
            [] tag = "park"       -> color = legend[5].color
            [] OTHER              -> color = "#666666"

\* C10 as claimed: the overlay layer is W by H and every emitted box lies
\* inside the canvas.
C10_BoxesInsideCanvas ==
    Returned =>
      /\ svg[1].width = args[1].width
      /\ svg[1].height = args[1].height
      /\ \A r \in EmittedRects : InsideCanvas(r, args[1].width, args[1].height)

\* C10 as amended: the overlay layer is W by H; the address box is anchored
\* at (padding, padding), the amenities box ends padding short of the right
\* edge, the closest-locations box padding short of the bottom edge; all
\* emitted boxes lie inside the canvas exactly when
\* W >= padding + addressBoxWidth and H >= padding + amenitiesBoxHeight.
C10_BoxesInsideLargeCanvas ==
    Returned =>
      LET W == args[1].width
          H == args[1].height
          z == sizes[1]
          s == svg[1]
      IN
      /\ s.width = W
      /\ s.height = H
      /\ s.addressBox.rect.x = z.padding
      /\ s.addressBox.rect.y = z.padding
      /\ s.amenitiesBox.rect.x + s.amenitiesBox.rect.width = W - z.padding
      /\ s.amenitiesBox.rect.y = z.padding
      /\ \A i \in 1..Len(s.closestBox) :
           /\ s.closestBox[i].rect.x = z.padding
           /\ s.closestBox[i].rect.y + s.closestBox[i].rect.height = H - z.padding
      /\ (\A r \in EmittedRects : InsideCanvas(r, W, H))
           <=> (W >= z.padding + z.addressBoxWidth
                  /\ H >= z.padding + z.amenitiesBoxHeight)

C10_Witness ==
    /\ Returned
    /\ args[1].width = 2300
    /\ args[1].height = 1280
    /\ svg[1].closestBox # <<>>
    /\ \A r \in EmittedRects : InsideCanvas(r, 2300, 1280)

====
